---- MODULE Spec2Model ----
(***************************************************************************)
(* Model of the caching, key-authenticating reverse proxy:                 *)
(*   - the tollgate middleware and its adapters (SecretKey, Postgres,      *)
(*     KeyValue),                                                          *)
(*   - the HTTP response cache middleware and its store,                   *)
(*   - the Redis quota scripts (reserve, set_and_reserve, refund),         *)
(*   - the MetaStore read-through cache with its single-flight group,      *)
(*   - the usage archiver (UsageTracker.Archive).                          *)
(* The handler chains are the one cmd/cachev1 builds,                      *)
(*   tollgate.HTTPHandlerMiddleware(cache.HTTPHandlerMiddleware(rp)),      *)
(* and the one cmd/httpcache builds, cache.HTTPHandlerMiddleware(rp).      *)
(***************************************************************************)
EXTENDS Integers, Sequences, FiniteSets, TLC

(***************************************************************************)
(* Bounds of the model.                                                    *)
(***************************************************************************)
MaxReq == 2        \* number of requests in one behaviour
MaxTime == 1       \* number of clock ticks
MaxQuota == 1      \* the remaining quota the durable row of k1 starts with
MaxOps == 3        \* number of script calls in one behaviour of ScriptSpec
MaxAmount == 2     \* largest amount a script is called with
MaxChunks == 2     \* most Write calls the downstream makes for one body
MaxFaults == 1     \* failures of a store in one behaviour
MaxQuery == 3      \* most name=value pairs in one query string

(***************************************************************************)
(* Program constants.                                                      *)
(***************************************************************************)
StatusOK == 200
StatusPaymentRequired == 402
StatusInternalServerError == 500
Amount == 1        \* the tollgate reserves and refunds one unit
Ttl == 1           \* cache ttl: one clock tick is 24 hours

Reqs == 1..MaxReq
Keys == {"k1", "k2", "bad"}
Methods == {"GET", "PUT"}
URLs == {"/a", "/b"}
UpstreamStatuses == {StatusOK, StatusInternalServerError}
\* A status below 400 other than 200: 201 Created.
StatusCreated == 201
\* The body the upstream writes is different in every invocation.
BodyNames == <<"b1", "b2", "b3", "b4">>
BodyOf(r) == BodyNames[r]
Adapters == {"SecretKey", "Postgres", "KeyValue"}
\* The chain of cmd/httpcache has no tollgate.
NoTollgate == "None"
\* The reverse proxy copies the body of the upstream to the writer in one
\* Write call per buffer: the first buffer of request r and the later ones.
ChunkNames == <<"", "+c2", "+c3", "+c4">>
Writes(r, n) == [i \in 1..n |-> IF i = 1 THEN BodyOf(r) ELSE ChunkNames[i]]
\* The cache chain is driven with POST requests, request bodies and bodies
\* of one buffer or of MaxChunks buffers; the tollgate chain with
\* single-buffer GET and PUT.
MethodsOf(a) == IF a = NoTollgate THEN Methods \cup {"POST"} ELSE Methods
URLsOf(a) == IF a = NoTollgate THEN {"/a"} ELSE URLs
\* Where ServeHTTP of the cache middleware returns to.
Returned(a) == IF a = NoTollgate THEN "done" ELSE "after"
ChunksOf(a) == IF a = NoTollgate THEN {1, MaxChunks} ELSE {1}
\* Request bodies: only a POST request is sent with one.
Bodies == {"", "x"}
BodiesOf(a, m) == IF a = NoTollgate /\ m = "POST" THEN Bodies ELSE {""}
serviceName == "jina"
\* A second service, with an adapter of its own over the same Redis.
otherServiceName == "premium"


NoRow == -1        \* no (key, service) row in the durable quota table
NoEntry == [present |-> FALSE]

VARIABLES
  adapter,     \* the tollgate.Adapter the chain was built with
  reqs,        \* per request: position in the handler chain and what it has seen
  store,       \* cache store: fingerprint -> encoded Response, or NoEntry
  now,         \* wall clock
  dbQuota,     \* durable store: remaining quota per key for the service
  dbKeys,      \* durable store: the api key rows
  metaCache,   \* Redis: key_meta:{key} -> cached KeyMetadata
  sfM,         \* singleflight.Group.m: logical key -> call in flight
  sfCalls,     \* the singleflight calls, named by the request that leads them
  redis,       \* Redis: quota cells and usage counters
  last,        \* the last script call made on the keyspace and its reply
  dbUsage,     \* durable store: the minute-usage rows
  arch,        \* the usage archiver: position in Archive and what it has seen
  obs          \* the cache store as its environment treats it, and its hits

vars == <<adapter, reqs, store, now, dbQuota, dbKeys, metaCache, sfM, sfCalls,
          redis, last, dbUsage, arch, obs>>

\* Variables only the usage archiver touches.
archVars == <<dbUsage, arch>>

(***************************************************************************)
(* Redis keyspace.  Key names and hash fields are tuples of strings; a     *)
(* value is nil, a string holding an integer, or a hash.                   *)
(***************************************************************************)
\* The minute of a counter is printed with %d: a decimal string.
MinuteNames == <<"60", "120", "180", "240", "300", "360">>
MinuteOf(t) == MinuteNames[t + 1]
Minutes == {MinuteOf(t) : t \in 0..MaxTime}
UnixTime(t) == 1000 + t

QuotaKey(apiKey) == <<"quota", apiKey>>
ServiceKey(service) == <<"service_", service>>
UsageKey(apiKey, service, minute) == <<"usage", apiKey, service, minute>>

\* Counters named by the ids of the key and of the service, as Archive
\* parses them.
KeyIDs == {"1"}
ServiceIDs == {"1"}
IDKeys == {UsageKey(k, s, m) : k \in KeyIDs, s \in ServiceIDs, m \in Minutes}

RedisKeys ==
  {QuotaKey(k) : k \in Keys}
  \cup {ServiceKey(serviceName)}
  \cup {Append(ServiceKey(serviceName), m) : m \in Minutes}
  \cup {UsageKey(k, serviceName, m) : k \in Keys, m \in Minutes}
  \cup {Append(ServiceKey(otherServiceName), m) : m \in Minutes}
  \cup {UsageKey("k1", otherServiceName, m) : m \in Minutes}
  \cup IDKeys

Nil == [t |-> "nil"]
Str(v) == [t |-> "string", v |-> v]
Hash(h) == [t |-> "hash", h |-> h]

HSET(h, field, value) ==
  [f \in (DOMAIN h) \cup {field} |-> IF f = field THEN value ELSE h[f]]

INCRBY(rs, key, n) ==
  [rs EXCEPT ![key] = Str(IF @.t = "nil" THEN n ELSE @.v + n)]

\* A script reply {v, status}; vtype is the RESP type of v as the client
\* library hands it over: a Lua number is an integer, tostring() a string.
Reply(v, vtype, status) ==
  [err |-> "", v |-> v, vtype |-> vtype, status |-> status]
ScriptError(msg) == [err |-> msg, v |-> 0, vtype |-> "int", status |-> ""]

(***************************************************************************)
(* reserve.lua                                                             *)
(***************************************************************************)
\* A faulty variant of the script: the decrement without the comparison of
\* remaining with amount.
ReserveLuaUnchecked(rs, KEYS, ARGV, minute) ==
  LET quotaKey == KEYS[1]
      amount == ARGV[2]
      usageKey == Append(KEYS[2], minute)
      current == rs[quotaKey]
  IN IF ARGV[1] = "true"
     THEN IF current.t = "hash"
          THEN [rs |-> rs, reply |-> ScriptError("WRONGTYPE")]
          ELSE IF current.t = "nil"
          THEN [rs |-> rs, reply |-> Reply(-1, "int", "LOAD_REQUIRED")]
          ELSE [rs |-> INCRBY([rs EXCEPT ![quotaKey] = Str(current.v - amount)],
                              usageKey, amount),
                reply |-> Reply(current.v - amount, "int", "OK")]
     ELSE [rs |-> INCRBY(rs, usageKey, amount),
           reply |-> Reply(999999, "int", "OK")]

ReserveLua(rs, KEYS, ARGV, minute) ==
  LET quotaKey == KEYS[1]
      metricKey == KEYS[2]
      hasQuota == ARGV[1] = "true"
      amount == ARGV[2]
      usageKey == Append(metricKey, minute)
      current == rs[quotaKey]
  IN IF hasQuota
     THEN IF current.t = "hash"
          THEN [rs |-> rs, reply |-> ScriptError("WRONGTYPE")]
          ELSE IF current.t = "nil"
          THEN [rs |-> rs, reply |-> Reply(-1, "int", "LOAD_REQUIRED")]
          ELSE IF current.v < amount
          THEN [rs |-> rs, reply |-> Reply(current.v, "int", "EXHAUSTED")]
          ELSE [rs |-> INCRBY([rs EXCEPT ![quotaKey] = Str(current.v - amount)],
                              usageKey, amount),
                reply |-> Reply(current.v - amount, "int", "OK")]
     ELSE [rs |-> INCRBY(rs, usageKey, amount),
           reply |-> Reply(999999, "int", "OK")]

(***************************************************************************)
(* refund.lua                                                              *)
(***************************************************************************)
\* A faulty variant of the script: the usage buffer is decremented without
\* the comparison with the amount.
RefundLuaUnclamped(rs, KEYS, ARGV) ==
  LET cell == rs[KEYS[1]]
      buffer == rs[KEYS[2]]
  IN IF cell.t = "string"
     THEN [rs |-> rs, reply |-> ScriptError("WRONGTYPE")]
     ELSE IF cell.t = "nil" \/ ARGV[1] \notin DOMAIN cell.h
     THEN [rs |-> rs, reply |-> Reply(0, "int", "NO_QUOTA")]
     ELSE LET newRemaining == cell.h[ARGV[1]] + ARGV[2]
              h1 == HSET(HSET(cell.h, ARGV[1], newRemaining),
                         <<"last_refund">>, ARGV[3])
              rs1 == [rs EXCEPT ![KEYS[1]] = Hash(h1)]
          IN [rs |-> IF buffer.t = "nil" THEN rs1
                     ELSE [rs1 EXCEPT ![KEYS[2]] = Str(buffer.v - ARGV[2])],
              reply |-> Reply(newRemaining, "int", "OK")]

RefundLua(rs, KEYS, ARGV) ==
  LET quotaKey == KEYS[1]
      usageKey == KEYS[2]
      serviceKey == ARGV[1]
      amount == ARGV[2]
      timestamp == ARGV[3]
      cell == rs[quotaKey]
      buffer == rs[usageKey]
  IN IF cell.t = "string"
     THEN [rs |-> rs, reply |-> ScriptError("WRONGTYPE")]
     ELSE IF cell.t = "nil" \/ serviceKey \notin DOMAIN cell.h
     THEN [rs |-> rs, reply |-> Reply(0, "int", "NO_QUOTA")]
     ELSE LET newRemaining == cell.h[serviceKey] + amount
              h1 == HSET(HSET(cell.h, serviceKey, newRemaining),
                         <<"last_refund">>, timestamp)
              rs1 == [rs EXCEPT ![quotaKey] = Hash(h1)]
              rs2 == IF buffer.t = "nil" THEN rs1
                     ELSE IF buffer.v >= amount
                     THEN [rs1 EXCEPT ![usageKey] = Str(buffer.v - amount)]
                     ELSE [rs1 EXCEPT ![usageKey] = Str(0)]
          IN [rs |-> rs2, reply |-> Reply(newRemaining, "int", "OK")]

(***************************************************************************)
(* set_and_reserve.lua.  ARGV[4] is nil when three arguments are passed;   *)
(* HSET with a nil argument raises an error after the first HSET is done.  *)
(***************************************************************************)
SetAndReserveLua(rs, KEYS, ARGV) ==
  LET quotaKey == KEYS[1]
      usageKey == KEYS[2]
      serviceKey == ARGV[1]
      initialQuota == ARGV[2]
      amount == ARGV[3]
      cell == rs[quotaKey]
      absent == cell.t = "nil" \/ serviceKey \notin DOMAIN cell.h
      h0 == IF cell.t = "nil" THEN <<>> ELSE cell.h
      from == IF absent THEN initialQuota ELSE cell.h[serviceKey]
      remaining == from - amount
      h1 == HSET(h0, serviceKey, remaining)
  IN IF cell.t = "string"
     THEN [rs |-> rs, reply |-> ScriptError("WRONGTYPE")]
     ELSE IF from < amount
     THEN [rs |-> rs, reply |-> Reply(from, "string", "EXHAUSTED")]
     ELSE IF Len(ARGV) < 4
     THEN [rs |-> [rs EXCEPT ![quotaKey] = Hash(h1)],
           reply |-> ScriptError("nil argument")]
     ELSE [rs |-> INCRBY([rs EXCEPT ![quotaKey] =
                            Hash(HSET(h1, <<"last_used">>, ARGV[4]))],
                         usageKey, amount),
           reply |-> Reply(remaining, "string", "OK")]

(***************************************************************************)
(* cmd/cachev1: configuration of the cache and of the SecretKey adapter.   *)
(***************************************************************************)
methods == {"GET", "POST"}
secretKey == "k1"

\* A faulty variant: every method is taken as cacheable.
cacheableAny(method) == TRUE

cacheableMethod(method) == method \in methods

\* hash/fnv is taken as injective: the fingerprint is the hashed byte string.
generateKey(URL) == URL

\* The body is appended to the URL and the whole is hashed.
generateKeyWithBody(URL, body) == URL \o body

\* The key ServeHTTP computes before it looks at the refresh parameter: a
\* server request has a body reader, so a POST is hashed with its body.
requestKey(method, URL, body) ==
  IF method = "POST" THEN generateKeyWithBody(URL, body) ELSE generateKey(URL)

\* The key of the refresh branch, recomputed over the stripped URL alone.
refreshedKey(method, URL, body) == generateKey(URL)

Fingerprints == {generateKeyWithBody(u, b) : u \in URLs, b \in Bodies}

(***************************************************************************)
(* URL canonicalisation.  A raw query is the sequence of its <<name,       *)
(* value>> pairs in the order they were written.                           *)
(***************************************************************************)
ParamNames == <<"a", "b">>
ValueNames == <<"1", "2">>
Queries ==
  UNION {[1..n -> {<<ParamNames[i], ValueNames[j]>> :
                     i \in 1..Len(ParamNames), j \in 1..Len(ValueNames)}] :
         n \in 0..MaxQuery}

\* The position of a value in the byte order sort.Slice compares with.
Rank(v) == CHOOSE j \in 1..Len(ValueNames) : ValueNames[j] = v

RECURSIVE ValuesOf(_, _)
\* URL.Query(): the values of one name, in the order they appear.
ValuesOf(q, name) ==
  IF q = <<>> THEN <<>>
  ELSE IF Head(q)[1] = name
       THEN <<Head(q)[2]>> \o ValuesOf(Tail(q), name)
       ELSE ValuesOf(Tail(q), name)

\* A faulty variant: the values of a parameter are left as written.
SortSliceNone(param) == param

RECURSIVE SortSlice(_)
SortSlice(param) ==
  IF param = <<>> THEN <<>>
  ELSE LET rest == SortSlice(Tail(param))
           before(x) == Rank(x) < Rank(Head(param))
           after(x) == ~before(x)
       IN  SelectSeq(rest, before) \o <<Head(param)>> \o SelectSeq(rest, after)

RECURSIVE EncodeFrom(_, _)
\* url.Values.Encode: the names in sorted order, each with its values in
\* slice order, as name=value joined by "&".
EncodeFrom(params, i) ==
  IF i > Len(ParamNames) THEN <<>>
  ELSE [j \in 1..Len(params[ParamNames[i]]) |->
          ParamNames[i] \o "=" \o params[ParamNames[i]][j]]
       \o EncodeFrom(params, i + 1)

RECURSIVE Join(_)
Join(parts) ==
  IF parts = <<>> THEN ""
  ELSE IF Len(parts) = 1 THEN parts[1]
  ELSE parts[1] \o "&" \o Join(Tail(parts))

\* sortURLParams: the RawQuery it leaves in the URL.
sortURLParams(q) ==
  LET params == [i \in 1..Len(ParamNames) |->
                   SortSlice(ValuesOf(q, ParamNames[i]))]
      byName == [name \in {ParamNames[i] : i \in 1..Len(ParamNames)} |->
                   params[CHOOSE i \in 1..Len(ParamNames) : ParamNames[i] = name]]
  IN  Join(EncodeFrom(byName, 1))

\* URL.String(): the path, and "?" with the query when there is one.
URLString(path, rawQuery) ==
  IF rawQuery = "" THEN path ELSE path \o "?" \o rawQuery

(***************************************************************************)
(* Adapters.  A result is [reserved, err, db]; err = "" is a nil error.    *)
(***************************************************************************)
SecretKeyReserve(key) ==
  IF key # secretKey
  THEN [reserved |-> FALSE, err |-> "invalid key", db |-> dbQuota]
  ELSE [reserved |-> TRUE, err |-> "", db |-> dbQuota]

SecretKeyRefund(key) ==
  IF key # secretKey
  THEN [reserved |-> FALSE, err |-> "invalid key", db |-> dbQuota]
  ELSE [reserved |-> TRUE, err |-> "", db |-> dbQuota]

\* The ReserveQuota query, as its caller describes it: it checks and reserves
\* the quota in one statement; no row comes back when the quota is short.
ReserveQuota(key, n) ==
  IF dbQuota[key] # NoRow /\ dbQuota[key] >= n
  THEN [rows |-> 1, db |-> [dbQuota EXCEPT ![key] = @ - n]]
  ELSE [rows |-> 0, db |-> dbQuota]

\* The RefundQuota query, as its caller describes it: it adds the amount to
\* the remaining quota; no row comes back when the key has none.
RefundQuota(key, n) ==
  IF dbQuota[key] # NoRow
  THEN [rows |-> 1, db |-> [dbQuota EXCEPT ![key] = @ + n]]
  ELSE [rows |-> 0, db |-> dbQuota]

PostgresReserve(key, amount, fail) ==
  IF fail
  THEN [reserved |-> FALSE, err |-> "db error", db |-> dbQuota]
  ELSE LET q == ReserveQuota(key, amount)
       IN IF q.rows = 0
          THEN [reserved |-> FALSE, err |-> "", db |-> q.db]
          ELSE [reserved |-> q.db[key] >= 0, err |-> "", db |-> q.db]

PostgresRefund(key, amount, fail) ==
  IF fail
  THEN [reserved |-> FALSE, err |-> "db error", db |-> dbQuota]
  ELSE LET q == RefundQuota(key, amount)
       IN [reserved |-> q.rows = 1 /\ q.db[key] <= MaxQuota, err |-> "",
           db |-> q.db]

(***************************************************************************)
(* QuotaManager: the Go side of the three scripts.  An outcome is "ok"     *)
(* for (true, nil), "denied" for (false, nil), "err" for (false, err) and  *)
(* "panic" when the function does not return.                              *)
(***************************************************************************)
FormatBool(b) == IF b THEN "true" ELSE "false"
DigitNames == <<"0", "1", "2", "3", "4", "5", "6", "7", "8", "9">>
Itoa(n) == DigitNames[n + 1]

\* values[0].(string) panics on an integer; then the switch on values[1].
ReserveStatus(reply) ==
  IF reply.err # "" THEN "err"
  ELSE IF reply.vtype # "string" THEN "panic"
  ELSE IF reply.status = "LOAD_REQUIRED" THEN "load"
  ELSE IF reply.status = "EXHAUSTED" THEN "denied"
  ELSE IF reply.status = "OK" THEN "ok"
  ELSE "err"

\* values[0].(int64) with the comma-ok form; then the switch on values[1].
RefundStatus(reply) ==
  IF reply.err # "" THEN "err"
  ELSE IF reply.vtype # "int" THEN "err"
  ELSE IF reply.status \in {"NO_QUOTA", "OK"} THEN "ok"
  ELSE "err"

trackConsumption(rs, keyMeta, amount, t) ==
  INCRBY(rs, UsageKey(keyMeta.APIKey, serviceName, MinuteOf(t)), amount)

\* quota is the result of metaStore.GetQuota, NoRow when it returns an error.
\* The three arguments land in the script as ARGV[1..3]: the decimal string
\* of the quota becomes the hash field name.
setAndReserve(rs, keyMeta, amount, t, quota) ==
  IF ~keyMeta.HasQuota
  THEN [rs |-> trackConsumption(rs, keyMeta, amount, t), outcome |-> "ok",
        reply |-> Reply(0, "int", "")]
  ELSE IF quota = NoRow
  THEN [rs |-> rs, outcome |-> "err", reply |-> ScriptError("GetQuota")]
  ELSE LET keys == <<QuotaKey(keyMeta.APIKey), ServiceKey(serviceName),
                     UsageKey(keyMeta.APIKey, serviceName, MinuteOf(t))>>
           argv == <<(<<Itoa(quota)>>), amount, UnixTime(t)>>
           c == SetAndReserveLua(rs, keys, argv)
           st == ReserveStatus(c.reply)
       IN [rs |-> c.rs, outcome |-> IF st = "load" THEN "err" ELSE st,
           reply |-> c.reply]

QuotaManagerReserve(rs, keyMeta, amount, t, quota) ==
  LET keys == <<QuotaKey(keyMeta.APIKey), ServiceKey(serviceName),
                UsageKey(keyMeta.APIKey, serviceName, MinuteOf(t))>>
      argv == <<FormatBool(keyMeta.HasQuota), amount, UnixTime(t)>>
      c == ReserveLua(rs, keys, argv, MinuteOf(t))
      st == ReserveStatus(c.reply)
  IN IF st = "load"
     THEN setAndReserve(c.rs, keyMeta, amount, t, quota)
     ELSE [rs |-> c.rs, outcome |-> st, reply |-> c.reply]

QuotaManagerRefund(rs, keyMeta, amount, t) ==
  IF ~keyMeta.HasQuota
  THEN [rs |-> rs, outcome |-> "ok", reply |-> Reply(0, "int", "")]
  ELSE LET keys == <<QuotaKey(keyMeta.APIKey),
                     UsageKey(keyMeta.APIKey, serviceName, MinuteOf(t))>>
           argv == <<ServiceKey(serviceName), amount, UnixTime(t)>>
           c == RefundLua(rs, keys, argv)
       IN [rs |-> c.rs, outcome |-> RefundStatus(c.reply), reply |-> c.reply]


(***************************************************************************)
(* The usage archiver: what UsageTracker.Archive reads and writes.         *)
(***************************************************************************)
\* strconv.ParseInt(s, 10, 64) on the strings the model has: the decimal
\* strings are the digits and the minute timestamps.
ParseInt(s) ==
  IF \E n \in 0..9 : DigitNames[n + 1] = s
  THEN [ok |-> TRUE, v |-> CHOOSE n \in 0..9 : DigitNames[n + 1] = s]
  ELSE IF \E i \in 1..Len(MinuteNames) : MinuteNames[i] = s
  THEN [ok |-> TRUE,
        v |-> 60 * (CHOOSE i \in 1..Len(MinuteNames) : MinuteNames[i] = s)]
  ELSE [ok |-> FALSE, v |-> 0]

\* strings.Split(key, ":") gives the parts of the key name; a key of four
\* parts whose last three parse names a row of the minute-usage table.
ParseUsageKey(key) ==
  IF Len(key) # 4 THEN [ok |-> FALSE, row |-> <<>>]
  ELSE LET apiKeyID == ParseInt(key[2])
           serviceID == ParseInt(key[3])
           minuteTimestamp == ParseInt(key[4])
       IN IF ~apiKeyID.ok \/ ~serviceID.ok \/ ~minuteTimestamp.ok
          THEN [ok |-> FALSE, row |-> <<>>]
          ELSE [ok |-> TRUE,
                row |-> <<apiKeyID.v, serviceID.v, minuteTimestamp.v>>]

\* The rows of the minute-usage table.
Rows == {ParseUsageKey(x).row : x \in IDKeys}

\* SCAN with MATCH usage:*
ScanUsage(rs) == {x \in RedisKeys : x[1] = "usage" /\ rs[x].t # "nil"}

\* A faulty variant: the counter is read and left in place.
GetKeep(rs, key) ==
  [rs |-> rs,
   err |-> rs[key].t # "string",
   count |-> IF rs[key].t = "string" THEN rs[key].v ELSE 0]

\* GETDEL key, then .Int() on the reply.
GetDel(rs, key) ==
  [rs |-> [rs EXCEPT ![key] = Nil],
   err |-> rs[key].t # "string",
   count |-> IF rs[key].t = "string" THEN rs[key].v ELSE 0]

\* UpsertMinuteUsage: the count is added to the row of the tuple.
UpsertMinuteUsage(db, row, count) == [db EXCEPT ![row] = @ + count]

\* SETEX key 300 count
SetEx(rs, key, count) == [rs EXCEPT ![key] = Str(count)]

\* Faulty variants: the counter is put back after every upsert, or never.
RedepositAlways(failed) == TRUE
RedepositNever(failed) == FALSE

\* The counter is put back when the upsert returned an error.
Redeposit(failed) == failed

\* The archiver between two runs, and its observations: incr, the total
\* incremented into each counter; owed, the count GETDEL removed that no
\* upsert has taken yet; lost, whether a key holding such a count expired;
\* written, the counters the quota manager wrote; redeposited, the keys
\* SETEX was called for.
ArchIdle ==
  [pc |-> "idle", todo |-> {}, key |-> <<>>, count |-> 0,
   err |-> FALSE, ran |-> FALSE, upserts |-> 0, failed |-> FALSE,
   prevClean |-> FALSE, second |-> FALSE, traffic |-> FALSE,
   snap |-> [row \in Rows |-> 0],
   ops |-> 0, faults |-> 0, dbUp |-> TRUE,
   incr |-> [x \in RedisKeys |-> 0],
   owed |-> [x \in RedisKeys |-> 0],
   lost |-> [x \in RedisKeys |-> FALSE],
   written |-> {}, redeposited |-> {}]
(***************************************************************************)
(* Requests.                                                               *)
(***************************************************************************)
NoMeta == [found |-> FALSE]
KeyMetadata(apiKey, hasQuota, status) ==
  [found |-> TRUE, APIKey |-> apiKey, HasQuota |-> hasQuota,
   Status |-> status]
\* A row of the api key table as GetAPIKeyByKeyString returns it.
NoKeyRow == [found |-> FALSE]
KeyRow(keyString, hasQuota, status) ==
  [found |-> TRUE, KeyString |-> keyString, HasQuota |-> hasQuota,
   Status |-> status]
NoCall == [state |-> "none", key |-> "", val |-> NoKeyRow, err |-> ""]
NoLast == [n |-> 0, calls |-> <<>>, granted |-> 0]

\* Variables the cache middleware never touches.
quotaVars == <<dbKeys, metaCache, sfM, sfCalls, redis, last, archVars>>

\* The cache store works, no two requests have met in the cache middleware
\* and no entry has been hit.
NoObs ==
  [faulty |-> FALSE, faults |-> 0, overlap |-> FALSE,
   hits |-> [f \in Fingerprints |-> 0], row |-> "old"]

IdleReq ==
  [pc |-> "idle", method |-> "GET", url |-> "/a", refresh |-> FALSE,
   rbody |-> "", sawExpired |-> FALSE, plain |-> FALSE,
   storeErr |-> FALSE, sawCorrupt |-> FALSE, prior |-> 0,
   query |-> <<>>,
   key |-> "k1",
   reserved |-> "none", reserveCalls |-> 0, refundCalls |-> 0,
   refundErr |-> FALSE,
   nextCalls |-> 0, upCalls |-> 0, cacheOps |-> {},
   wstatus |-> 0, rwstatus |-> 0, rwbody |-> "",
   upstatus |-> 0,
   status |-> 0, body |-> "", fromCache |-> FALSE,
   fp |-> generateKey("/a"), hit |-> NoEntry,
   flight |-> 0, meta |-> NoMeta, loads |-> 0, late |-> FALSE,
   gotKey |-> FALSE, keyErr |-> FALSE, cold |-> FALSE, sawReset |-> FALSE]

InitCommon ==
  /\ reqs = [r \in Reqs |-> IdleReq]
  /\ store = [f \in Fingerprints |-> NoEntry]
  /\ now = 0
  /\ dbKeys = [k \in Keys |->
                 IF k = "k1" THEN KeyRow(k, TRUE, "assigned") ELSE NoKeyRow]
  /\ metaCache = [k \in Keys |-> NoMeta]
  /\ sfM = [k \in Keys |-> 0]
  /\ sfCalls = [r \in Reqs |-> NoCall]
  /\ last = NoLast
  /\ dbUsage = [row \in Rows |-> 0]
  /\ arch = ArchIdle

Init ==
  /\ InitCommon
  /\ obs = NoObs
  /\ adapter \in Adapters
  /\ dbQuota = [k \in Keys |-> IF k = "k1" THEN MaxQuota ELSE NoRow]
  /\ redis = [x \in RedisKeys |-> Nil]

\* Tenant keys that behave differently under the adapter in use.
KeysOf(a) == IF a = "KeyValue" THEN Keys ELSE {"k1", "bad"}

\* A client sends a request; requests are numbered in order of arrival.  The
\* tollgate reads the tenant key of the request and nothing else.
Start(r) ==
  /\ reqs[r].pc = "idle"
  /\ \A p \in Reqs : p < r => reqs[p].pc # "idle"
  /\ \E k \in KeysOf(adapter) :
       reqs' = [reqs EXCEPT ![r] = [@ EXCEPT !.pc = "reserve", !.key = k]]
  /\ UNCHANGED <<obs, adapter, store, now, dbQuota, quotaVars>>

\* http.Error(w, msg, code) and return.
Rejected(q, code, msg) ==
  [q EXCEPT !.pc = "done", !.status = code, !.body = msg]

\* A panic unwinds the chain; middleware.Recoverer answers 500.
Recovered(q) ==
  [q EXCEPT !.pc = "done", !.status = StatusInternalServerError, !.body = ""]

\* Faulty variants of the tollgate: one that lets a denied request through,
\* one that lets a request through when Reserve returned an error.
TollgateOutcomeForwardDenied(q, outcome, msg) ==
  LET q1 == [q EXCEPT !.reserveCalls = @ + 1, !.reserved = outcome]
  IN IF outcome = "panic" THEN Recovered(q1)
     ELSE IF outcome = "err"
     THEN Rejected(q1, StatusInternalServerError, msg)
     ELSE [q1 EXCEPT !.pc = "cache", !.wstatus = StatusOK,
                     !.nextCalls = @ + 1]

TollgateOutcomeFailOpen(q, outcome, msg) ==
  LET q1 == [q EXCEPT !.reserveCalls = @ + 1, !.reserved = outcome]
  IN IF outcome = "panic" THEN Recovered(q1)
     ELSE IF outcome = "denied"
     THEN Rejected(q1, StatusPaymentRequired, "Insufficient balance")
     ELSE [q1 EXCEPT !.pc = "cache", !.wstatus = StatusOK,
                     !.nextCalls = @ + 1]

\* tollgateHTTPHandler.ServeHTTP from the return of Reserve to the call of
\* next.  outcome is "ok", "denied", "err" or "panic"; msg is the error text.
TollgateOutcome(q, outcome, msg) ==
  LET q1 == [q EXCEPT !.reserveCalls = @ + 1, !.reserved = outcome]
  IN IF outcome = "panic" THEN Recovered(q1)
     ELSE IF outcome = "err"
     THEN Rejected(q1, StatusInternalServerError, msg)
     ELSE IF outcome = "denied"
     THEN Rejected(q1, StatusPaymentRequired, "Insufficient balance")
     ELSE [q1 EXCEPT !.pc = "cache", !.wstatus = StatusOK,
                     !.nextCalls = @ + 1]

OutcomeOf(res) ==
  IF res.err # "" THEN "err" ELSE IF res.reserved THEN "ok" ELSE "denied"

\* Reserve of the SecretKey and Postgres adapters: one call, one statement.
TollgateReserve(r) ==
  /\ reqs[r].pc = "reserve"
  /\ adapter \in {"SecretKey", "Postgres"}
  /\ \E fail \in BOOLEAN :
       LET res == IF adapter = "SecretKey"
                  THEN SecretKeyReserve(reqs[r].key)
                  ELSE PostgresReserve(reqs[r].key, Amount, fail)
       IN /\ adapter = "SecretKey" => ~fail
          /\ reqs' = [reqs EXCEPT ![r] =
                        TollgateOutcome(@, OutcomeOf(res), res.err)]
          /\ dbQuota' = res.db
  /\ UNCHANGED <<obs, adapter, store, now, quotaVars>>


(***************************************************************************)
(* KeyValue adapter: MetaStore.GetKey with its single-flight group, then   *)
(* QuotaManager.Reserve.                                                   *)
(***************************************************************************)
\* A faulty variant of the group: it never finds a call in flight.
SfNeverInFlight(m, k) == FALSE

\* singleflight.Group.Do: is a call for this key in the map?
SfInFlight(m, k) == m[k] # 0

\* GetKey, first half: GET key_meta:{key}.  A hit returns the cached
\* metadata; a miss or a Redis error goes on to the single-flight load.
KVGetKey(r) ==
  /\ reqs[r].pc = "reserve"
  /\ adapter = "KeyValue"
  /\ \E fail \in BOOLEAN :
       LET q == reqs[r]
           cached == metaCache[q.key]
           late == \E p \in Reqs \ {r} :
                     reqs[p].key = q.key /\ reqs[p].gotKey
           q0 == [q EXCEPT !.sawReset = (obs.row = "reset")]
       IN reqs' = [reqs EXCEPT ![r] =
            IF ~fail /\ cached.found
            THEN [q0 EXCEPT !.pc = "script", !.meta = cached,
                            !.gotKey = TRUE]
            ELSE [q0 EXCEPT !.pc = "sfdo", !.late = late]]
  /\ UNCHANGED <<obs, adapter, store, now, dbQuota, quotaVars>>

\* sf.Do: join the call in flight for the key, or register a new one.
SfDo(r) ==
  /\ reqs[r].pc = "sfdo"
  /\ LET k == reqs[r].key
     IN IF SfInFlight(sfM, k)
        THEN /\ reqs' = [reqs EXCEPT ![r] =
                  [@ EXCEPT !.pc = "sfwait", !.flight = sfM[k]]]
             /\ UNCHANGED <<sfM, sfCalls>>
        ELSE /\ sfM' = [sfM EXCEPT ![k] = r]
             /\ sfCalls' = [sfCalls EXCEPT ![r] =
                  [state |-> "running", key |-> k, val |-> NoKeyRow,
                   err |-> ""]]
             /\ reqs' = [reqs EXCEPT ![r] =
                  [@ EXCEPT !.pc = "sfload", !.flight = r]]
  /\ UNCHANGED <<obs, archVars, adapter, store, now, dbQuota, dbKeys, metaCache, redis,
                 last>>

\* The leader runs db.GetAPIKeyByKeyString, then the call leaves the map and
\* its waiters are released.
SfLoad(r) ==
  /\ reqs[r].pc = "sfload"
  /\ \E fail \in BOOLEAN :
       LET k == reqs[r].key
           row == dbKeys[k]
       IN /\ sfCalls' = [sfCalls EXCEPT ![r] =
               [state |-> "done", key |-> k,
                val |-> IF fail THEN NoKeyRow ELSE row,
                err |-> IF fail THEN "db error"
                        ELSE IF ~row.found THEN "no rows" ELSE ""]]
          /\ sfM' = [sfM EXCEPT ![k] = 0]
          /\ reqs' = [reqs EXCEPT ![r] =
               [@ EXCEPT !.pc = "sfres", !.loads = @ + 1]]
  /\ UNCHANGED <<obs, archVars, adapter, store, now, dbQuota, dbKeys, metaCache, redis,
                 last>>

\* A waiter wakes up when the call it joined is done.
SfWait(r) ==
  /\ reqs[r].pc = "sfwait"
  /\ sfCalls[reqs[r].flight].state = "done"
  /\ reqs' = [reqs EXCEPT ![r] = [@ EXCEPT !.pc = "sfres"]]
  /\ UNCHANGED <<obs, adapter, store, now, dbQuota, quotaVars>>

\* GetKey, second half, and KeyValue.Reserve's check of its error: sf.Do
\* hands the caller the value and error of the call it ran or joined; build
\* the KeyMetadata from the row and cache it, or fail the reservation.
KVGetKeyResult(r) ==
  /\ reqs[r].pc = "sfres"
  /\ LET q == reqs[r]
         c == sfCalls[q.flight]
         metadata == KeyMetadata(c.val.KeyString, c.val.HasQuota,
                                 c.val.Status)
     IN IF c.err # ""
        THEN /\ reqs' = [reqs EXCEPT ![r] =
                  TollgateOutcome([q EXCEPT !.gotKey = TRUE,
                                            !.keyErr = TRUE],
                                  "err", "r.keyStore.GetKey")]
             /\ metaCache' = metaCache
        ELSE /\ reqs' = [reqs EXCEPT ![r] =
                  [q EXCEPT !.pc = "script", !.meta = metadata,
                            !.gotKey = TRUE]]
             /\ metaCache' = [metaCache EXCEPT ![q.key] = metadata]
  /\ UNCHANGED <<obs, archVars, adapter, store, now, dbQuota, dbKeys, sfM, sfCalls, redis,
                 last>>

\* QuotaManager.Reserve with the metadata; fail is a Redis failure.
KVReserve(r) ==
  /\ reqs[r].pc = "script"
  /\ \E fail \in BOOLEAN :
       LET q == reqs[r]
           res == IF fail
                  THEN [rs |-> redis, outcome |-> "err",
                        reply |-> ScriptError("redis")]
                  ELSE QuotaManagerReserve(redis, q.meta, Amount, now,
                                           dbQuota[q.key])
           q1 == [q EXCEPT !.cold = ~fail /\ q.meta.HasQuota
                                    /\ redis[QuotaKey(q.key)].t = "nil"]
       IN /\ redis' = res.rs
          /\ reqs' = [reqs EXCEPT ![r] =
               TollgateOutcome(q1, res.outcome, "r.quotaManager.Reserve")]
  /\ UNCHANGED <<obs, archVars, adapter, store, now, dbQuota, dbKeys, metaCache, sfM,
                 sfCalls, last>>

\* AdminService.AddKeyToUser for a service key: one transaction creates the
\* key row and sets its status to "assigned".  The key table is read by the
\* MetaStore only.
AddKeyToUser(k) ==
  /\ adapter = "KeyValue"
  /\ k = "k2"
  /\ ~dbKeys[k].found
  /\ dbKeys' = [dbKeys EXCEPT ![k] = KeyRow(k, FALSE, "assigned")]
  /\ UNCHANGED <<obs, archVars, adapter, reqs, store, now, dbQuota, metaCache, sfM, sfCalls,
                 redis, last>>

\* key_meta:{key} is set with a TTL of one hour.
MetaExpire(k) ==
  /\ metaCache[k].found
  /\ metaCache' = [metaCache EXCEPT ![k] = NoMeta]
  /\ UNCHANGED <<obs, archVars, adapter, reqs, store, now, dbQuota, dbKeys, sfM, sfCalls,
                 redis, last>>

(***************************************************************************)
(* MetaStore.GetKey against a change of the key's row and ResetKey.        *)
(* obs.row tells whether the row of k1 was changed and whether ResetKey    *)
(* has returned since; sawReset marks the calls of GetKey that began       *)
(* after ResetKey returned.                                                *)
(***************************************************************************)
\* Queries.UpdateAPIKeyStatus on the row of an existing key.
UpdateAPIKeyStatus(k) ==
  /\ k = "k1"
  /\ obs.row = "old"
  /\ dbKeys[k].found
  /\ dbKeys' = [dbKeys EXCEPT ![k] = KeyRow(k, dbKeys[k].HasQuota,
                                            "unassigned")]
  /\ obs' = [obs EXCEPT !.row = "changed"]
  /\ UNCHANGED <<archVars, adapter, reqs, store, now, dbQuota, metaCache,
                 sfM, sfCalls, redis, last>>

\* ResetKey: DEL key_meta:{key}.
ResetKey(k) ==
  /\ metaCache' = [metaCache EXCEPT ![k] = NoMeta]
  /\ obs' = IF k = "k1" /\ obs.row = "changed"
            THEN [obs EXCEPT !.row = "reset"] ELSE obs
  /\ UNCHANGED <<archVars, adapter, reqs, store, now, dbQuota, dbKeys, sfM,
                 sfCalls, redis, last>>

ResetInit ==
  /\ InitCommon
  /\ obs = NoObs
  /\ adapter = "KeyValue"
  /\ dbQuota = [k \in Keys |-> IF k = "k1" THEN MaxQuota ELSE NoRow]
  /\ redis = [x \in RedisKeys |-> Nil]

ResetNext ==
  \/ \E r \in Reqs : Start(r)
  \/ \E r \in Reqs : KVGetKey(r)
  \/ \E r \in Reqs : SfDo(r)
  \/ \E r \in Reqs : SfLoad(r)
  \/ \E r \in Reqs : SfWait(r)
  \/ \E r \in Reqs : KVGetKeyResult(r)
  \/ \E k \in Keys : MetaExpire(k)
  \/ \E k \in Keys : UpdateAPIKeyStatus(k)
  \/ \E k \in Keys : ResetKey(k)

ResetSpec == ResetInit /\ [][ResetNext]_vars

(***************************************************************************)
(* Cache middleware: cachedHTTPHandler.ServeHTTP.                          *)
(***************************************************************************)
Release(st, key) == [st EXCEPT ![key] = NoEntry]

Set(st, key, response) == [st EXCEPT ![key] = response]

\* A faulty variant: an entry is served whatever its expiration.
FreshAlways(expiration, t) == TRUE

\* response.Expiration.After(time.Now())
Fresh(expiration, t) == expiration > t

\* The outcomes of a call of the cache store: it fails only when the store
\* is a faulty one, and the failures of one behaviour are counted.
Failures(o) == IF o.faulty /\ o.faults < MaxFaults THEN BOOLEAN ELSE {FALSE}

Failed(o, fail) == IF fail THEN [o EXCEPT !.faults = @ + 1] ELSE o

\* RedisAdapter.Get: the bytes and true, or nil and false on any error.
Get(st, key, fail) == st[key].present /\ ~fail

\* BytesToResponse: the gob decoder fails on bytes that are no Response.
BytesToResponse(b) == [err |-> b.corrupt, response |-> b]

\* A faulty variant: a request that finds undecodable bytes is turned down.
UndecodableRejects(q) ==
  [q EXCEPT !.pc = "done", !.status = StatusInternalServerError,
            !.sawCorrupt = TRUE]

\* Undecodable bytes: next.ServeHTTP(w, r) with the writer the middleware
\* was given, and return.
Undecodable(q) == [q EXCEPT !.pc = "next", !.plain = TRUE, !.sawCorrupt = TRUE]

\* A faulty variant: a hit pushes the expiration of the entry forward.
TouchedSliding(response, t) ==
  [response EXCEPT !.Frequency = @ + 1, !.Expiration = t + Ttl]

\* A faulty variant: a hit leaves the frequency as it found it.
Untouched(response, t) == response

\* response.LastAccess = time.Now(); response.Frequency++
Touched(response, t) == [response EXCEPT !.Frequency = @ + 1]

\* The hits of the entries and the meetings of requests are observed in the
\* cache chain.
Seen(o) == IF adapter = NoTollgate THEN o ELSE obs

\* Requests inside the cache middleware.
InCache == {p \in Reqs : reqs[p].pc \in {"hit", "expired", "next"}}

\* The cache middleware reads the method, the URL, the body and the refresh
\* parameter of the request (they are drawn here, where they are first read;
\* refresh is only looked at for a cacheable method; url is the URL with its
\* parameters sorted and the refresh parameter taken out).  The refresh
\* branch releases the entry, the other branch gets and decodes it.
CacheLookup(r) ==
  /\ reqs[r].pc = "cache"
  /\ \E m \in MethodsOf(adapter), u \in URLsOf(adapter), rf \in BOOLEAN :
     \E rb \in BodiesOf(adapter, m), fail \in Failures(obs) :
       LET q == [reqs[r] EXCEPT !.method = m, !.url = u, !.refresh = rf,
                                !.rbody = rb]
           o == Failed([obs EXCEPT !.overlap = @ \/ InCache # {}], fail)
       IN /\ rf => cacheableMethod(m)
          /\ obs.faulty => m # "POST"
          /\ ~cacheableMethod(m) => ~fail
          /\ IF ~cacheableMethod(m)
             THEN /\ reqs' = [reqs EXCEPT ![r] = [q EXCEPT !.pc = "next"]]
                  /\ store' = store
                  /\ obs' = Seen(o)
             ELSE IF rf
             THEN LET key == refreshedKey(m, u, rb)
                  IN /\ store' = IF fail THEN store ELSE Release(store, key)
                     /\ obs' = Seen(o)
                     /\ reqs' = [reqs EXCEPT ![r] =
                          [q EXCEPT !.pc = "next", !.fp = key,
                                    !.storeErr = fail,
                                    !.cacheOps = @ \cup {"release"}]]
             ELSE LET key == requestKey(m, u, rb)
                      b == store[key]
                      dec == BytesToResponse(b)
                      q1 == [q EXCEPT !.fp = key, !.storeErr = fail,
                                      !.cacheOps = @ \cup {"get"}]
                  IN /\ store' = store
                     /\ obs' = Seen(o)
                     /\ reqs' = [reqs EXCEPT ![r] =
                          IF ~Get(store, key, fail)
                          THEN [q1 EXCEPT !.pc = "next"]
                          ELSE IF dec.err THEN Undecodable(q1)
                          ELSE IF Fresh(dec.response.Expiration, now)
                          THEN [q1 EXCEPT !.pc = "hit", !.hit = dec.response]
                          ELSE [q1 EXCEPT !.pc = "expired", !.hit = b,
                                          !.sawExpired = TRUE]]
  /\ UNCHANGED <<adapter, now, dbQuota, quotaVars>>

\* Fresh entry: count the access, re-store the entry with its expiration and
\* write it to the client.
CacheHit(r) ==
  /\ reqs[r].pc = "hit"
  /\ \E fail \in Failures(obs) :
       LET q == reqs[r]
           response == Touched(q.hit, now)
       IN /\ store' = IF fail THEN store ELSE Set(store, q.fp, response)
          /\ obs' = Seen([Failed(obs, fail) EXCEPT !.hits[q.fp] = @ + 1])
          /\ reqs' = [reqs EXCEPT ![r] =
               [@ EXCEPT !.pc = Returned(adapter),
                         !.cacheOps = @ \cup {"set"},
                         !.storeErr = @ \/ fail,
                         !.prior = Seen(obs).hits[q.fp],
                         !.hit = response,
                         !.status = StatusOK, !.body = response.Value,
                         !.fromCache = TRUE]]
  /\ UNCHANGED <<adapter, now, dbQuota, quotaVars>>

\* Expired entry: release it and go on as a miss.
CacheExpired(r) ==
  /\ reqs[r].pc = "expired"
  /\ \E fail \in Failures(obs) :
       /\ store' = IF fail THEN store ELSE Release(store, reqs[r].fp)
       /\ obs' = Seen(Failed(obs, fail))
       /\ reqs' = [reqs EXCEPT ![r] =
            [@ EXCEPT !.pc = "next", !.storeErr = @ \/ fail,
                      !.cacheOps = @ \cup {"release"}]]
  /\ UNCHANGED <<adapter, now, dbQuota, quotaVars>>

\* A faulty variant: every response is stored.
StorableAlways(statusCode) == TRUE

\* Only a response whose status is below 400 is stored.
Storable(statusCode) == statusCode < 400

\* The bytes the client receives: every Write is passed on to it.
RECURSIVE Concat(_)
Concat(writes) ==
  IF writes = <<>> THEN "" ELSE Head(writes) \o Concat(Tail(writes))

\* responseWriter.Write: w.body = b, once per Write call, so that after the
\* last call the writer holds the bytes of that call.
RECURSIVE WriterBody(_, _)
WriterBody(body, writes) ==
  IF writes = <<>> THEN body ELSE WriterBody(Head(writes), Tail(writes))

\* next.ServeHTTP(rw, r) and what follows it in the cache middleware: the
\* reverse proxy answers WriteHeader(s) and one Write per buffer, and the
\* response is stored unless its status is an error.  With a method that is
\* not cacheable, or after undecodable bytes, the reverse proxy is called
\* with the writer the cache middleware was given and nothing is stored.
ServeNext(r) ==
  /\ reqs[r].pc = "next"
  /\ \E s \in UpstreamStatuses, n \in ChunksOf(adapter) :
     \E fail \in Failures(obs) :
       LET q == reqs[r]
           b == Concat(Writes(r, n))
           wrapped == cacheableMethod(q.method) /\ ~q.plain
           rwstatus == IF wrapped THEN s ELSE 0
           rwbody == IF wrapped THEN WriterBody("", Writes(r, n)) ELSE ""
           response == [present |-> TRUE, Value |-> rwbody,
                        Expiration |-> now + Ttl, Frequency |-> 1,
                        from |-> rwstatus, wrote |-> b, corrupt |-> FALSE,
                        created |-> now]
           set == wrapped /\ Storable(rwstatus)
           stored == set /\ ~fail
       IN /\ fail => set
          /\ obs.faulty => n = 1
          /\ store' = IF stored THEN Set(store, q.fp, response) ELSE store
          /\ obs' = Seen(IF stored THEN [obs EXCEPT !.hits[q.fp] = 0]
                         ELSE Failed(obs, fail))
          /\ reqs' = [reqs EXCEPT ![r] =
               [q EXCEPT !.pc = Returned(adapter),
                         !.upCalls = @ + 1, !.upstatus = s,
                         !.rwstatus = rwstatus, !.rwbody = rwbody,
                         !.wstatus = s, !.status = s, !.body = b,
                         !.storeErr = @ \/ fail,
                         !.cacheOps = IF set THEN @ \cup {"set"} ELSE @]]
  /\ UNCHANGED <<adapter, now, dbQuota, quotaVars>>

\* A faulty variant: the refund is made whatever the status.
ShouldRefundAlways(statusCode) == TRUE

\* The status the tollgate's writer captured calls for a refund.
ShouldRefund(statusCode) == statusCode >= 400

\* tollgateHTTPHandler.ServeHTTP after next returned: refund on status >= 400.
\* KeyValue.Refund uses the metadata GetKey gave to Reserve; without quota
\* it returns before it calls Redis, so no failure of Redis reaches it.
TollgateAfter(r) ==
  /\ reqs[r].pc = "after"
  /\ LET q == reqs[r]
     IN IF ShouldRefund(q.wstatus)
        THEN \E fail \in BOOLEAN :
               LET kv == IF fail /\ q.meta.HasQuota
                         THEN [rs |-> redis, outcome |-> "err"]
                         ELSE QuotaManagerRefund(redis, q.meta, Amount, now)
                   res == IF adapter = "SecretKey"
                          THEN SecretKeyRefund(q.key)
                          ELSE IF adapter = "Postgres"
                          THEN PostgresRefund(q.key, Amount, fail)
                          ELSE [reserved |-> kv.outcome = "ok",
                                err |-> IF kv.outcome = "ok" THEN ""
                                        ELSE "r.quotaManager.Refund",
                                db |-> dbQuota]
               IN /\ adapter = "SecretKey" => ~fail
                  /\ dbQuota' = res.db
                  /\ redis' = IF adapter = "KeyValue" THEN kv.rs ELSE redis
                  /\ reqs' = [reqs EXCEPT ![r] =
                       [@ EXCEPT !.pc = "done", !.refundCalls = @ + 1,
                                 !.refundErr = (res.err # "")]]
        ELSE /\ dbQuota' = dbQuota
             /\ redis' = redis
             /\ reqs' = [reqs EXCEPT ![r] = [@ EXCEPT !.pc = "done"]]
  /\ UNCHANGED <<obs, archVars, adapter, store, now, dbKeys, metaCache, sfM, sfCalls, last>>

\* The storage layer drops an entry whose TTL has run out.
StoreExpire(f) ==
  /\ store[f].present
  /\ store[f].Expiration <= now
  /\ store' = Release(store, f)
  /\ obs' = obs
  /\ UNCHANGED <<adapter, reqs, now, dbQuota, quotaVars>>

Tick ==
  /\ now < MaxTime
  /\ now' = now + 1
  /\ UNCHANGED <<obs, adapter, reqs, store, dbQuota, quotaVars>>

Next ==
  \/ \E r \in Reqs : Start(r)
  \/ \E r \in Reqs : TollgateReserve(r)
  \/ \E r \in Reqs : KVGetKey(r)
  \/ \E r \in Reqs : SfDo(r)
  \/ \E r \in Reqs : SfLoad(r)
  \/ \E r \in Reqs : SfWait(r)
  \/ \E r \in Reqs : KVGetKeyResult(r)
  \/ \E r \in Reqs : KVReserve(r)
  \/ \E k \in Keys : AddKeyToUser(k)
  \/ \E k \in Keys : MetaExpire(k)
  \/ \E r \in Reqs : CacheLookup(r)
  \/ \E r \in Reqs : CacheHit(r)
  \/ \E r \in Reqs : CacheExpired(r)
  \/ \E r \in Reqs : ServeNext(r)
  \/ \E r \in Reqs : TollgateAfter(r)
  \/ \E f \in Fingerprints : StoreExpire(f)
  \/ Tick

Spec == Init /\ [][Next]_vars

(***************************************************************************)
(* cmd/httpcache: the cache middleware in front of the reverse proxy, with *)
(* no tollgate.                                                            *)
(***************************************************************************)
CacheInit ==
  /\ InitCommon
  /\ obs = NoObs
  /\ adapter = NoTollgate
  /\ dbQuota = [k \in Keys |-> NoRow]
  /\ redis = [x \in RedisKeys |-> Nil]

\* The server hands a request to the cache middleware.
CacheStart(r) ==
  /\ reqs[r].pc = "idle"
  /\ \A p \in Reqs : p < r => reqs[p].pc # "idle"
  /\ reqs' = [reqs EXCEPT ![r] = [@ EXCEPT !.pc = "cache"]]
  /\ UNCHANGED <<obs, adapter, store, now, dbQuota, quotaVars>>

CacheNext ==
  \/ \E r \in Reqs : CacheStart(r)
  \/ \E r \in Reqs : CacheLookup(r)
  \/ \E r \in Reqs : CacheHit(r)
  \/ \E r \in Reqs : CacheExpired(r)
  \/ \E r \in Reqs : ServeNext(r)
  \/ \E f \in Fingerprints : StoreExpire(f)
  \/ Tick

CacheSpec == CacheInit /\ [][CacheNext]_vars

(***************************************************************************)
(* The cache chain some time after it was started: an earlier GET /a       *)
(* missed at time 0 and its response, which the upstream sent with a       *)
(* status below 400, is stored under the fingerprint.                      *)
(***************************************************************************)
RefreshInit ==
  /\ reqs = [r \in Reqs |-> IdleReq]
  /\ \E s \in {StatusOK, StatusCreated} :
       store = [f \in Fingerprints |->
                 IF f = requestKey("GET", "/a", "")
                 THEN [present |-> TRUE, Value |-> "b0", Expiration |-> Ttl,
                       Frequency |-> 1, from |-> s, wrote |-> "b0",
                       corrupt |-> FALSE, created |-> 0]
                 ELSE NoEntry]
  /\ now = 0
  /\ dbKeys = [k \in Keys |->
                 IF k = "k1" THEN KeyRow(k, TRUE, "assigned") ELSE NoKeyRow]
  /\ metaCache = [k \in Keys |-> NoMeta]
  /\ sfM = [k \in Keys |-> 0]
  /\ sfCalls = [r \in Reqs |-> NoCall]
  /\ last = NoLast
  /\ dbUsage = [row \in Rows |-> 0]
  /\ arch = ArchIdle
  /\ obs = NoObs
  /\ adapter = NoTollgate
  /\ dbQuota = [k \in Keys |-> NoRow]
  /\ redis = [x \in RedisKeys |-> Nil]

RefreshSpec == RefreshInit /\ [][CacheNext]_vars

(***************************************************************************)
(* The cache chain in front of a store that can fail: any get, set or      *)
(* release may return an error, and the bytes of an entry may be replaced  *)
(* by bytes the gob decoder rejects.  It is driven with GET and PUT        *)
(* requests and single-buffer bodies.                                      *)
(***************************************************************************)
CacheFaultInit ==
  /\ InitCommon
  /\ obs = [NoObs EXCEPT !.faulty = TRUE]
  /\ adapter = NoTollgate
  /\ dbQuota = [k \in Keys |-> NoRow]
  /\ redis = [x \in RedisKeys |-> Nil]

\* The bytes stored under a fingerprint are overwritten with other bytes.
StoreCorrupt(f) ==
  /\ store[f].present
  /\ ~store[f].corrupt
  /\ obs.faults < MaxFaults
  /\ store' = [store EXCEPT ![f].corrupt = TRUE]
  /\ obs' = Failed(obs, TRUE)
  /\ UNCHANGED <<adapter, reqs, now, dbQuota, quotaVars>>

CacheFaultNext ==
  \/ CacheNext
  \/ \E f \in Fingerprints : StoreCorrupt(f)

CacheFaultSpec == CacheFaultInit /\ [][CacheFaultNext]_vars

(***************************************************************************)
(* The quota scripts on their own.  ScriptSpec draws the quota cell of k1  *)
(* from the values a Redis key can hold and applies the scripts to it in   *)
(* any order: Redis runs one script at a time.  last keeps the two latest  *)
(* calls with the keyspace before and after each, and the units granted    *)
(* and not refunded.                                                       *)
(***************************************************************************)
scriptMeta == KeyMetadata("k1", TRUE, "assigned")

CellValues ==
  {Nil} \cup {Str(v) : v \in 0..MaxQuota}
        \cup {Hash(HSET(<<>>, ServiceKey(serviceName), v)) : v \in 0..MaxQuota}

Amounts == 1..MaxAmount

\* A call: the reply of the script, what the Go caller makes of it (ret) and
\* the keyspace before and after.
Call(op, amount, reply, pre, post) ==
  [op |-> op, amount |-> amount, status |-> reply.status, err |-> reply.err,
   v |-> reply.v, pre |-> pre, post |-> post,
   ret |-> IF op \in {"refund", "refund@premium"} THEN RefundStatus(reply)
           ELSE ReserveStatus(reply)]

\* Calls made through the adapter of the second service.
OtherOps == {"reserve@premium", "refund@premium"}

Log(l, call) ==
  [n |-> l.n + 1,
   calls |-> IF Len(l.calls) = 2 THEN <<l.calls[2], call>>
             ELSE Append(l.calls, call),
   granted |-> IF call.status # "OK" \/ call.op \in OtherOps THEN l.granted
               ELSE IF call.op = "refund" THEN l.granted - call.amount
               ELSE l.granted + call.amount]

ScriptInit ==
  /\ InitCommon
  /\ obs = NoObs
  /\ adapter = "KeyValue"
  /\ dbQuota = [k \in Keys |-> IF k = "k1" THEN MaxQuota ELSE NoRow]
  /\ \E cell \in CellValues :
       redis = [x \in RedisKeys |-> IF x = QuotaKey("k1") THEN cell ELSE Nil]

\* reserve.lua with the keys and arguments QuotaManager.Reserve builds.
LuaReserve ==
  /\ last.n < MaxOps
  /\ \E a \in Amounts :
       LET keys == <<QuotaKey("k1"), ServiceKey(serviceName),
                     UsageKey("k1", serviceName, MinuteOf(now))>>
           c == ReserveLua(redis, keys, <<"true", a, UnixTime(now)>>,
                           MinuteOf(now))
       IN /\ redis' = c.rs
          /\ last' = Log(last, Call("reserve", a, c.reply, redis, c.rs))
  /\ UNCHANGED <<obs, archVars, adapter, reqs, store, now, dbQuota, dbKeys, metaCache, sfM,
                 sfCalls>>

\* The set_and_reserve script with the keys and arguments it declares; the
\* initial quota is the durable remaining quota, as GetQuota returns it.
LuaSetAndReserve ==
  /\ last.n < MaxOps
  /\ \E a \in Amounts :
       LET keys == <<QuotaKey("k1"),
                     UsageKey("k1", serviceName, MinuteOf(now))>>
           argv == <<ServiceKey(serviceName), dbQuota["k1"], a,
                     UnixTime(now)>>
           c == SetAndReserveLua(redis, keys, argv)
       IN /\ redis' = c.rs
          /\ last' = Log(last, Call("set_and_reserve", a, c.reply, redis,
                                    c.rs))
  /\ UNCHANGED <<obs, archVars, adapter, reqs, store, now, dbQuota, dbKeys, metaCache, sfM,
                 sfCalls>>

\* The set_and_reserve script as QuotaManager.setAndReserve runs it.
GoSetAndReserve ==
  /\ last.n < MaxOps
  /\ \E a \in Amounts :
       LET c == setAndReserve(redis, scriptMeta, a, now, dbQuota["k1"])
       IN /\ redis' = c.rs
          /\ last' = Log(last, Call("setAndReserve", a, c.reply, redis,
                                    c.rs))
  /\ UNCHANGED <<obs, archVars, adapter, reqs, store, now, dbQuota, dbKeys, metaCache, sfM,
                 sfCalls>>

\* refund.lua as QuotaManager.Refund runs it.
LuaRefund ==
  /\ last.n < MaxOps
  /\ \E a \in Amounts :
       LET c == QuotaManagerRefund(redis, scriptMeta, a, now)
       IN /\ redis' = c.rs
          /\ last' = Log(last, Call("refund", a, c.reply, redis, c.rs))
  /\ UNCHANGED <<obs, archVars, adapter, reqs, store, now, dbQuota, dbKeys, metaCache, sfM,
                 sfCalls>>

\* QuotaManager.Reserve of the adapter built for the second service, for the
\* same tenant key; a hot cell, so the call ends with the reserve script.
OtherReserve ==
  /\ last.n < MaxOps
  /\ redis[QuotaKey("k1")] # Nil
  /\ \E a \in Amounts :
       LET keys == <<QuotaKey("k1"), ServiceKey(otherServiceName),
                     UsageKey("k1", otherServiceName, MinuteOf(now))>>
           c == ReserveLua(redis, keys, <<"true", a, UnixTime(now)>>,
                           MinuteOf(now))
       IN /\ redis' = c.rs
          /\ last' = Log(last, Call("reserve@premium", a, c.reply, redis,
                                    c.rs))
  /\ UNCHANGED <<obs, archVars, adapter, reqs, store, now, dbQuota, dbKeys, metaCache, sfM,
                 sfCalls>>

\* QuotaManager.Refund of the adapter built for the second service.
OtherRefund ==
  /\ last.n < MaxOps
  /\ \E a \in Amounts :
       LET keys == <<QuotaKey("k1"),
                     UsageKey("k1", otherServiceName, MinuteOf(now))>>
           argv == <<ServiceKey(otherServiceName), a, UnixTime(now)>>
           c == RefundLua(redis, keys, argv)
       IN /\ redis' = c.rs
          /\ last' = Log(last, Call("refund@premium", a, c.reply, redis,
                                    c.rs))
  /\ UNCHANGED <<obs, archVars, adapter, reqs, store, now, dbQuota, dbKeys, metaCache, sfM,
                 sfCalls>>

\* The TTL of the quota cell runs out, or Redis loses the key.
CellExpire ==
  /\ redis[QuotaKey("k1")] # Nil
  /\ redis' = [redis EXCEPT ![QuotaKey("k1")] = Nil]
  /\ UNCHANGED <<obs, archVars, adapter, reqs, store, now, dbQuota, dbKeys, metaCache, sfM,
                 sfCalls, last>>

ScriptNext ==
  \/ LuaReserve
  \/ LuaSetAndReserve
  \/ GoSetAndReserve
  \/ LuaRefund
  \/ CellExpire
  \/ Tick

ScriptSpec == ScriptInit /\ [][ScriptNext]_vars

\* Two adapters, one per service, reserve and refund for the same tenant key.
MultiNext ==
  \/ LuaReserve
  \/ LuaRefund
  \/ OtherReserve
  \/ OtherRefund
  \/ CellExpire

\* The cell is a string, or a hash with a field for each service.
MultiInit ==
  /\ InitCommon
  /\ obs = NoObs
  /\ adapter = "KeyValue"
  /\ dbQuota = [k \in Keys |-> IF k = "k1" THEN MaxQuota ELSE NoRow]
  /\ \E cell \in {Str(v) : v \in 0..MaxQuota} \cup
                  {Hash(HSET(HSET(<<>>, ServiceKey(serviceName), v),
                             ServiceKey(otherServiceName), w)) :
                     v \in 0..MaxQuota, w \in 0..MaxQuota} :
       redis = [x \in RedisKeys |-> IF x = QuotaKey("k1") THEN cell ELSE Nil]

MultiSpec == MultiInit /\ [][MultiNext]_vars

(***************************************************************************)
(* UsageTracker.Archive and the traffic that fills the counters.           *)
(***************************************************************************)
\* The metadata of a key that has no quota, as GetKey returns it.
noQuotaMeta == KeyMetadata("k2", FALSE, "assigned")

\* The keys whose value differs between two keyspaces.
Changed(rs, rs1) == {x \in RedisKeys : rs[x] # rs1[x]}

\* The observations after one unit was counted; byReserve tells a counter
\* the quota manager wrote from one a client of the keyspace wrote.
Counted(rs1, byReserve) ==
  [arch EXCEPT
     !.ops = @ + 1, !.traffic = TRUE, !.second = FALSE,
     !.incr = [x \in RedisKeys |->
                 IF x \in Changed(redis, rs1) THEN arch.incr[x] + Amount
                 ELSE arch.incr[x]],
     !.written = IF byReserve THEN @ \cup Changed(redis, rs1) ELSE @]

ArchiveInit ==
  /\ InitCommon
  /\ obs = NoObs
  /\ adapter = "KeyValue"
  /\ dbQuota = [k \in Keys |-> IF k = "k1" THEN MaxQuota ELSE NoRow]
  /\ redis = [x \in RedisKeys |-> Nil]

\* QuotaManager.Reserve for a key without quota: reserve.lua counts the unit.
ReserveNoQuota ==
  /\ arch.ops < MaxOps
  /\ LET rs1 == QuotaManagerReserve(redis, noQuotaMeta, Amount, now, NoRow).rs
     IN /\ redis' = rs1
        /\ arch' = Counted(rs1, TRUE)
  /\ UNCHANGED <<obs, adapter, reqs, store, now, dbQuota, dbKeys, metaCache, sfM,
                 sfCalls, last, dbUsage>>

\* QuotaManager.trackConsumption for a key without quota.
TrackConsumption ==
  /\ arch.ops < MaxOps
  /\ LET rs1 == trackConsumption(redis, noQuotaMeta, Amount, now)
     IN /\ redis' = rs1
        /\ arch' = Counted(rs1, TRUE)
  /\ UNCHANGED <<obs, adapter, reqs, store, now, dbQuota, dbKeys, metaCache, sfM,
                 sfCalls, last, dbUsage>>

\* A unit is counted under a key named by ids, the form Archive parses.
UsageIncr(x) ==
  /\ arch.ops < MaxOps
  /\ x[4] = MinuteOf(now)
  /\ LET rs1 == INCRBY(redis, x, Amount)
     IN /\ redis' = rs1
        /\ arch' = Counted(rs1, FALSE)
  /\ UNCHANGED <<obs, adapter, reqs, store, now, dbQuota, dbKeys, metaCache, sfM,
                 sfCalls, last, dbUsage>>

\* Archive is called: the scan for usage:* begins.
ArchiveStart ==
  /\ arch.pc = "idle"
  /\ arch' = [arch EXCEPT
       !.pc = "scan", !.todo = ScanUsage(redis),
       !.err = FALSE, !.upserts = 0, !.failed = FALSE,
       !.second = arch.ran /\ ~arch.traffic,
       !.prevClean = arch.ran /\ ~arch.err /\ ~arch.failed,
       !.traffic = FALSE, !.snap = dbUsage]
  /\ UNCHANGED <<obs, adapter, reqs, store, now, dbQuota, dbKeys, metaCache, sfM,
                 sfCalls, last, redis, dbUsage>>

\* One turn of the loop up to the upsert: the key is parsed, then read and
\* deleted; or the iterator is exhausted and Archive returns nil.
ArchiveScan ==
  /\ arch.pc = "scan"
  /\ IF arch.todo = {}
     THEN /\ arch' = [arch EXCEPT !.pc = "idle", !.ran = TRUE]
          /\ redis' = redis
     ELSE \E x \in arch.todo :
            LET p == ParseUsageKey(x)
                g == GetDel(redis, x)
                rest == [arch EXCEPT !.todo = @ \ {x}]
            IN IF ~p.ok
               THEN /\ arch' = rest
                    /\ redis' = redis
               ELSE /\ redis' = g.rs
                    /\ arch' = IF g.err \/ g.count <= 0 THEN rest
                               ELSE [rest EXCEPT !.pc = "upsert", !.key = x,
                                                 !.count = g.count,
                                                 !.owed[x] = g.count]
  /\ UNCHANGED <<obs, adapter, reqs, store, now, dbQuota, dbKeys, metaCache, sfM,
                 sfCalls, last, dbUsage>>

\* The iterator stops on an error of the scan: Archive returns iter.Err().
ArchiveScanErr ==
  /\ arch.pc = "scan"
  /\ arch.faults < MaxFaults
  /\ arch' = [arch EXCEPT !.pc = "idle", !.ran = TRUE, !.err = TRUE,
                          !.todo = {}, !.faults = @ + 1]
  /\ UNCHANGED <<obs, adapter, reqs, store, now, dbQuota, dbKeys, metaCache, sfM,
                 sfCalls, last, redis, dbUsage>>

\* The upsert of the count in hand, and the re-deposit when it failed.
ArchiveUpsert ==
  /\ arch.pc = "upsert"
  /\ LET failed == ~arch.dbUp
         row == ParseUsageKey(arch.key).row
     IN /\ dbUsage' = IF failed THEN dbUsage
                      ELSE UpsertMinuteUsage(dbUsage, row, arch.count)
        /\ redis' = IF Redeposit(failed)
                    THEN SetEx(redis, arch.key, arch.count) ELSE redis
        /\ arch' = [arch EXCEPT
             !.pc = "scan", !.key = <<>>, !.count = 0,
             !.failed = @ \/ failed,
             !.redeposited = IF Redeposit(failed) THEN @ \cup {arch.key}
                             ELSE @,
             !.upserts = IF failed THEN @ ELSE @ + 1,
             !.owed[arch.key] = IF failed THEN @ ELSE 0]
  /\ UNCHANGED <<obs, adapter, reqs, store, now, dbQuota, dbKeys, metaCache, sfM,
                 sfCalls, last>>

\* The TTL of a counter runs out.
UsageExpire(x) ==
  /\ redis[x].t = "string"
  /\ redis' = [redis EXCEPT ![x] = Nil]
  /\ arch' = [arch EXCEPT
       !.lost[x] = @ \/ (arch.owed[x] > 0 /\ arch.key # x)]
  /\ UNCHANGED <<obs, adapter, reqs, store, now, dbQuota, dbKeys, metaCache, sfM,
                 sfCalls, last, dbUsage>>

\* The durable store stops accepting upserts, and accepts them again.
DbDown ==
  /\ arch.dbUp
  /\ arch.faults < MaxFaults
  /\ arch' = [arch EXCEPT !.dbUp = FALSE, !.faults = @ + 1]
  /\ UNCHANGED <<obs, adapter, reqs, store, now, dbQuota, dbKeys, metaCache, sfM,
                 sfCalls, last, redis, dbUsage>>

DbUp ==
  /\ ~arch.dbUp
  /\ arch' = [arch EXCEPT !.dbUp = TRUE]
  /\ UNCHANGED <<obs, adapter, reqs, store, now, dbQuota, dbKeys, metaCache, sfM,
                 sfCalls, last, redis, dbUsage>>

\* The keys that hold a counter.
Counters ==
  IDKeys \cup {UsageKey(k, serviceName, m) : k \in Keys, m \in Minutes}
         \cup {Append(ServiceKey(serviceName), m) : m \in Minutes}

ArchiveNext ==
  \/ ReserveNoQuota
  \/ TrackConsumption
  \/ \E x \in IDKeys : UsageIncr(x)
  \/ ArchiveStart
  \/ ArchiveScan
  \/ ArchiveScanErr
  \/ ArchiveUpsert
  \/ \E x \in Counters : UsageExpire(x)
  \/ DbDown
  \/ DbUp

ArchiveSpec == ArchiveInit /\ [][ArchiveNext]_vars

\* The scheduler calls Archive again and again, a call runs to its end, and
\* the durable store comes back after an outage.
FairArchiveSpec ==
  /\ ArchiveSpec
  /\ WF_vars(ArchiveStart)
  /\ WF_vars(ArchiveScan)
  /\ WF_vars(ArchiveUpsert)
  /\ WF_vars(DbUp)

(***************************************************************************)
(* Fingerprints of two requests: the key ServeHTTP computes for each,      *)
(* over queries written in any order.                                      *)
(***************************************************************************)
CanonInit ==
  /\ InitCommon
  /\ obs = NoObs
  /\ adapter = NoTollgate
  /\ dbQuota = [k \in Keys |-> IF k = "k1" THEN MaxQuota ELSE NoRow]
  /\ redis = [x \in RedisKeys |-> Nil]

\* Two requests arrive with one method and path and a query each; a POST
\* carries a body, the second one the same body or none.
CanonArrive ==
  /\ \A r \in {1, 2} : reqs[r].pc = "idle"
  /\ \E m \in methods, u \in URLsOf(adapter),
        b1 \in Bodies \cup {"&a=2"}, q1 \in Queries, q2 \in Queries :
       \E b2 \in {b1, ""} :
         /\ m = "GET" => b1 = ""
         /\ reqs' = [reqs EXCEPT
              ![1] = [@ EXCEPT !.pc = "arrived", !.method = m, !.url = u,
                               !.rbody = b1, !.query = q1],
              ![2] = [@ EXCEPT !.pc = "arrived", !.method = m, !.url = u,
                               !.rbody = b2, !.query = q2]]
  /\ UNCHANGED <<adapter, store, now, dbQuota, quotaVars, obs>>

\* ServeHTTP up to the key: the query is canonicalised, then hashed with
\* the path (and the body of a POST).
CanonKey(r) ==
  /\ reqs[r].pc = "arrived"
  /\ r = 2 => reqs[1].pc = "keyed"
  /\ reqs' = [reqs EXCEPT ![r] = [@ EXCEPT
       !.pc = "keyed",
       !.fp = requestKey(reqs[r].method,
                         URLString(reqs[r].url, sortURLParams(reqs[r].query)),
                         reqs[r].rbody)]]
  /\ UNCHANGED <<adapter, store, now, dbQuota, quotaVars, obs>>

CanonNext == CanonArrive \/ \E r \in {1, 2} : CanonKey(r)

CanonSpec == CanonInit /\ [][CanonNext]_vars

(***************************************************************************)
(* Properties.                                                             *)
(***************************************************************************)
Done(r) == reqs[r].pc = "done"

\* Under the KeyValue adapter QuotaManager.Reserve never returns (true, nil):
\* no request gets past the tollgate.
KVNeverForwards ==
  adapter = "KeyValue" => \A r \in Reqs : reqs[r].reserved # "ok"

\* C1: a request the cache middleware answers from a fresh cached entry never
\* had Reserve called for it (the remaining quota and the usage counter of
\* its key change through Reserve only, so they are as before the request).
C1_HitReservesNothing ==
  \A r \in Reqs :
    reqs[r].fromCache =>
      reqs[r].reserveCalls = 0 /\ reqs[r].reserved = "none"

\* The value of the quota cell of a key, whichever of the two shapes it has.
CellValue(k) ==
  LET c == redis[QuotaKey(k)]
  IN IF c.t = "string" THEN c.v
     ELSE IF c.t = "hash" /\ ServiceKey(serviceName) \in DOMAIN c.h
     THEN c.h[ServiceKey(serviceName)]
     ELSE 0

Granting == {"reserve", "set_and_reserve", "setAndReserve"}

\* C2: whatever the order in which reserve, set-and-reserve and refund calls
\* (amount >= 1) run on the quota cell of a has_quota key, the value of the
\* cell is never negative, and every call that reserves successfully leaves a
\* remaining quota >= 0.
C2_QuotaNeverNegative ==
  /\ CellValue("k1") >= 0
  /\ \A i \in 1..Len(last.calls) :
       LET c == last.calls[i]
       IN (c.op \in Granting /\ c.status = "OK") => c.v >= 0

\* Two reserves on the same cell: the first takes the last unit, the second
\* is turned down and the cell stays at 0.
C2_Witness ==
  /\ Len(last.calls) = 2
  /\ last.calls[1].op = "reserve" /\ last.calls[1].status = "OK"
  /\ last.calls[1].v = 0
  /\ last.calls[2].op = "reserve" /\ last.calls[2].status = "EXHAUSTED"
  /\ last.calls[2].pre = last.calls[1].post
  /\ CellValue("k1") = 0

\* C3: a successful reserve followed by the refund of the same amount leaves
\* the quota cell and every usage counter as they were before the reserve.
C3_ReserveRefundNetZero ==
  ( /\ Len(last.calls) = 2
    /\ last.calls[1].op = "reserve" /\ last.calls[1].status = "OK"
    /\ last.calls[2].op = "refund"
    /\ last.calls[2].amount = last.calls[1].amount
    /\ last.calls[2].pre = last.calls[1].post
    /\ redis = last.calls[2].post )
  => redis = last.calls[1].pre

ErrorTexts ==
  {"invalid key", "db error", "r.keyStore.GetKey", "r.quotaManager.Reserve"}

C5_RefundIffFailed ==
  \A r \in Reqs :
    /\ reqs[r].refundCalls <= 1
    /\ reqs[r].refundCalls = 1 =>
         reqs[r].reserved = "ok" /\ reqs[r].wstatus >= 400
    /\ Done(r) =>
         (reqs[r].refundCalls = 1 <=>
            (reqs[r].reserved = "ok" /\ reqs[r].wstatus >= 400))
    /\ (Done(r) /\ reqs[r].refundErr) =>
         /\ reqs[r].status = reqs[r].upstatus
         /\ reqs[r].body = BodyOf(r)

\* The upstream answered 500, the refund was made and failed.
C5_Witness ==
  \E r \in Reqs :
    /\ Done(r)
    /\ reqs[r].reserved = "ok"
    /\ reqs[r].wstatus = StatusInternalServerError
    /\ reqs[r].refundCalls = 1
    /\ reqs[r].refundErr
    /\ reqs[r].status = StatusInternalServerError

C7_ColdReserve ==
  \A r \in Reqs :
    (reqs[r].cold /\ reqs[r].reserveCalls = 1) =>
      IF dbQuota[reqs[r].key] >= Amount
      THEN /\ reqs[r].reserved = "ok"
           /\ redis[QuotaKey(reqs[r].key)] # Nil
      ELSE reqs[r].reserved = "denied"

\* The requests of a key that ran a durable load of its metadata.
Loaders(k) == {r \in Reqs : reqs[r].key = k /\ reqs[r].loads > 0}

\* C8, as stated: concurrent cold calls of GetKey for one key cause exactly
\* one durable read.  The calls of a key are concurrent when none of them
\* started after another had returned.
C8_OneReadPerKey ==
  \A k \in Keys :
    (\A r \in Reqs : reqs[r].key = k => ~reqs[r].late) =>
      Cardinality(Loaders(k)) <= 1

\* C8, amended: at any time at most one durable load is in flight for a
\* logical key; each call runs one load; a caller that joined a call runs no
\* load and receives the value and error of the call it joined.
C8_SingleFlight ==
  /\ \A r1, r2 \in Reqs :
       ( /\ sfCalls[r1].state = "running"
         /\ sfCalls[r2].state = "running"
         /\ sfCalls[r1].key = sfCalls[r2].key ) => r1 = r2
  /\ \A r \in Reqs :
       /\ reqs[r].loads <= 1
       /\ reqs[r].flight \notin {0, r} => reqs[r].loads = 0
       /\ (reqs[r].gotKey /\ reqs[r].flight # 0) =>
            LET c == sfCalls[reqs[r].flight]
            IN /\ c.state = "done"
               /\ c.key = reqs[r].key
               /\ reqs[r].keyErr = (c.err # "")
               /\ c.err = "" =>
                    reqs[r].meta = KeyMetadata(c.val.KeyString,
                                               c.val.HasQuota, c.val.Status)

\* A caller joined the call another request leads and got its result.
C8_Witness ==
  \E r \in Reqs :
    /\ reqs[r].gotKey
    /\ reqs[r].flight \notin {0, r}
    /\ ~reqs[r].keyErr
    /\ reqs[r].meta.APIKey = reqs[r].key

C10_NoErrorCached ==
  /\ \A f \in Fingerprints : store[f].present => store[f].from < 400
  /\ \A r \in Reqs :
       /\ (reqs[r].upCalls = 1 /\ reqs[r].rwstatus >= 400) =>
            "set" \notin reqs[r].cacheOps
       /\ reqs[r].fromCache => reqs[r].hit.from < 400

\* After a request that got a 500, a later identical request looks the entry
\* up, misses and reaches the upstream.
C10_Witness ==
  \E r1, r2 \in Reqs :
    /\ r1 < r2
    /\ Done(r1) /\ Done(r2)
    /\ reqs[r1].rwstatus = StatusInternalServerError
    /\ reqs[r2].fp = reqs[r1].fp
    /\ reqs[r2].method = reqs[r1].method
    /\ ~reqs[r2].refresh
    /\ "get" \in reqs[r2].cacheOps
    /\ ~reqs[r2].fromCache
    /\ reqs[r2].upCalls = 1

(***************************************************************************)
(* The cache middleware on its own (CacheSpec).                            *)
(***************************************************************************)
\* The request has been through the lookup of the cache middleware.
LookedUp(r) == reqs[r].pc \notin {"idle", "reserve", "cache"}

\* C11: a hit returns a body equal to the complete body the downstream
\* wrote when the entry was stored, however many Write calls it made.
C11_HitBodyComplete ==
  \A r \in Reqs :
    reqs[r].fromCache => reqs[r].body = reqs[r].hit.wrote

\* C12: the fingerprint a refresh request releases and stores under is the
\* fingerprint a request without the refresh parameter, with the same
\* method, URL and body, looks up.
C12_RefreshSameFingerprint ==
  \A r \in Reqs :
    (LookedUp(r) /\ reqs[r].refresh) =>
      reqs[r].fp = requestKey(reqs[r].method, reqs[r].url, reqs[r].rbody)

\* C13: a refresh request is never answered from the cache, its entry is
\* released without a get, the downstream handler is invoked, and when the
\* downstream status is below 400 the entry stored is the response of that
\* invocation (its complete body) with frequency 1 and expiration now + ttl.
C13_RefreshStoresResponse ==
  [][\A r \in Reqs :
       LET q == reqs[r]
           q1 == reqs'[r]
       IN /\ q1.refresh => ~q1.fromCache /\ "get" \notin q1.cacheOps
          /\ (q1.refresh /\ q.pc = "cache" /\ q1.pc # "cache") =>
               /\ q1.pc = "next"
               /\ "release" \in q1.cacheOps
               /\ ~store'[q1.fp].present
          /\ (q.refresh /\ q.pc = "next" /\ q1.pc # "next") =>
               /\ q1.upCalls = 1
               /\ q1.upstatus < 400 =>
                    /\ store'[q.fp].present
                    /\ store'[q.fp].Value = q1.body
                    /\ store'[q.fp].Frequency = 1
                    /\ store'[q.fp].Expiration = now + Ttl]_vars

\* C14: an entry whose expiration is not after the time of the lookup is
\* never written to a response: the lookup releases it and the request goes
\* on to the downstream handler as a miss.
C14_ExpiredNeverServed ==
  [][\A r \in Reqs :
       LET q == reqs[r]
           q1 == reqs'[r]
       IN /\ (q.pc = "cache" /\ q1.pc = "hit") =>
               store[q1.fp].present /\ store[q1.fp].Expiration > now
          /\ (q.pc = "cache" /\ "get" \in q1.cacheOps
                /\ store[q1.fp].present
                /\ store[q1.fp].Expiration <= now) => q1.pc = "expired"
          /\ (q.pc = "expired" /\ q1.pc # "expired") =>
               /\ q1.pc = "next"
               /\ "release" \in q1.cacheOps
               /\ ~store'[q.fp].present
          /\ (q1.fromCache /\ ~q.fromCache) => q.pc = "hit"
          /\ (q1.sawExpired /\ q1.pc = "done") =>
               ~q1.fromCache /\ q1.upCalls = 1]_vars

\* An expired entry was found by a request that ended at the downstream.
C14_Witness ==
  \E r \in Reqs :
    /\ reqs[r].sawExpired
    /\ reqs[r].pc = "done"
    /\ reqs[r].upCalls = 1
    /\ "release" \in reqs[r].cacheOps

\* C15: for a method outside the configured cacheable set the cache
\* middleware calls none of get, set and release and calls next once.
C15_NonCacheablePassThrough ==
  \A r \in Reqs :
    (LookedUp(r) /\ reqs[r].method \notin methods) =>
      /\ reqs[r].cacheOps = {}
      /\ ~reqs[r].fromCache
      /\ reqs[r].upCalls = IF reqs[r].pc = "next" THEN 0 ELSE 1

\* A PUT request went through the cache middleware to the downstream.
C15_Witness ==
  \E r \in Reqs :
    /\ reqs[r].method = "PUT"
    /\ reqs[r].pc = "done"
    /\ reqs[r].upCalls = 1

(***************************************************************************)
(* The usage archiver (ArchiveSpec, FairArchiveSpec).                      *)
(***************************************************************************)
\* Archive has returned nil and nothing was counted since it was called.
ArchivedCleanly ==
  arch.pc = "idle" /\ arch.ran /\ ~arch.err /\ ~arch.traffic

\* C16: after Archive returned without error, no counter written by Reserve
\* is left in Redis: each was read, deleted and added to its durable row.
C16_ArchiveDrainsReserveCounters ==
  ArchivedCleanly => \A x \in arch.written : redis[x].t = "nil"

C18_NeverOverCounted ==
  \A x \in IDKeys : dbUsage[ParseUsageKey(x).row] <= arch.incr[x]

\* A count was re-deposited after a failed upsert and archived by a later
\* run, and the row holds all that was counted.
C18_Witness ==
  \E x \in IDKeys :
    /\ x \in arch.redeposited
    /\ arch.pc = "idle"
    /\ arch.incr[x] > 1
    /\ dbUsage[ParseUsageKey(x).row] = arch.incr[x]

InvalidKey(r) ==
  \/ adapter = "SecretKey" /\ reqs[r].key # secretKey
  \/ adapter = "KeyValue" /\ ~dbKeys[reqs[r].key].found /\ ~reqs[r].meta.found

\* C20: a request whose tenant key is missing or invalid is answered with
\* status 402 and is not forwarded to the next handler.
C20_InvalidKeyIs402 ==
  \A r \in Reqs :
    (Done(r) /\ InvalidKey(r)) =>
      reqs[r].status = StatusPaymentRequired /\ reqs[r].nextCalls = 0

SameParams(q1, q2) ==
  LET Count(q, pair) == Cardinality({i \in 1..Len(q) : q[i] = pair})
  IN  /\ Len(q1) = Len(q2)
      /\ \A i \in 1..Len(q1) : Count(q1, q1[i]) = Count(q2, q1[i])

C22_OrderInsensitiveFingerprint ==
  (/\ reqs[1].pc = "keyed" /\ reqs[2].pc = "keyed"
   /\ reqs[1].method = reqs[2].method
   /\ reqs[1].url = reqs[2].url
   /\ reqs[1].rbody = reqs[2].rbody
   /\ SameParams(reqs[1].query, reqs[2].query))
    => reqs[1].fp = reqs[2].fp

\* Both a parameter and the values of a two-valued parameter are swapped.
C22_Witness ==
  /\ reqs[1].pc = "keyed" /\ reqs[2].pc = "keyed"
  /\ reqs[1].method = "POST" /\ reqs[1].rbody = "x"
  /\ reqs[1].query = <<<<"b", "1">>, <<"a", "2">>, <<"a", "1">>>>
  /\ reqs[2].query = <<<<"a", "1">>, <<"b", "1">>, <<"a", "2">>>>
  /\ reqs[1].fp = reqs[2].fp
  /\ reqs[1].fp = "/a?a=1&a=2&b=1x"

(***************************************************************************)
(* C23: a Reserve or Refund issued through the adapter of one service      *)
(* leaves unchanged the remaining quota the adapter of another service     *)
(* reads for the same tenant key.                                          *)
(***************************************************************************)
\* What the scripts of a service read as the remaining quota of k1: GET of
\* the cell in reserve.lua, HGET of the service's field in the other two.
Remaining(rs, service) ==
  LET cell == rs[QuotaKey("k1")]
  IN  IF cell.t = "string" THEN cell.v
      ELSE IF cell.t = "hash" /\ ServiceKey(service) \in DOMAIN cell.h
           THEN cell.h[ServiceKey(service)]
           ELSE NoRow

CounterValue(rs, x) == IF rs[x].t = "string" THEN rs[x].v ELSE 0

C26_HitKeepsExpiration ==
  [][/\ \A r \in Reqs :
          LET q == reqs[r]
              q1 == reqs'[r]
          IN /\ (q.pc = "hit" /\ q1.pc # "hit") =>
                  /\ store'[q.fp].present
                  /\ store'[q.fp].Expiration = q.hit.Expiration
                  /\ q1.hit.Expiration = q.hit.Expiration
             /\ (q.pc = "cache" /\ q1.pc = "hit") =>
                  now < q1.hit.created + Ttl
     /\ \A f \in Fingerprints :
          store'[f].present =>
            store'[f].Expiration = store'[f].created + Ttl]_vars

\* A hit re-stored an entry after the clock had moved on from its creation.
C26_Witness ==
  \E r \in Reqs :
    /\ reqs[r].fromCache
    /\ store[reqs[r].fp] = reqs[r].hit
    /\ reqs[r].hit.created < now
    /\ reqs[r].hit.Expiration = reqs[r].hit.created + Ttl
    /\ reqs[r].hit.Frequency > 1

C28_UndecodableIsMiss ==
  [][\A r \in Reqs :
       LET q == reqs[r]
           q1 == reqs'[r]
       IN /\ (q.pc = "cache" /\ q1.sawCorrupt) =>
               /\ q1.pc = "next"
               /\ store' = store
          /\ (q.pc = "next" /\ q.sawCorrupt /\ q1.pc # "next") =>
               /\ q1.upCalls = 1
               /\ (q1.upstatus < 400 /\ ~q1.storeErr) =>
                    /\ store'[q.fp].present
                    /\ ~store'[q.fp].corrupt
                    /\ store'[q.fp].wrote = q1.body]_vars

(***************************************************************************)
(* C29: for a key without quota, Reserve returns (true, nil) unless Redis  *)
(* fails, and all it does to the keyspace is to add the amount to the      *)
(* usage counter of the minute; Refund returns (true, nil) and leaves the  *)
(* keyspace alone.                                                         *)
(***************************************************************************)
C29_NoQuotaReserve ==
  [][\A r \in Reqs :
       LET q == reqs[r]
           q1 == reqs'[r]
       IN /\ (q.pc = "script" /\ ~q.meta.HasQuota /\ q1.pc # "script"
                /\ q1.reserved # "err") =>
               /\ q1.reserved = "ok"
               /\ redis' = INCRBY(redis,
                                  UsageKey(q.key, serviceName, MinuteOf(now)),
                                  Amount)
          /\ (adapter = "KeyValue" /\ q.pc = "after" /\ ~q.meta.HasQuota
                /\ q1.refundCalls > q.refundCalls) =>
               /\ ~q1.refundErr
               /\ redis' = redis]_vars

(***************************************************************************)
(* C30: a reserve, set-and-reserve or refund script that completes has     *)
(* updated the quota cell and a usage counter together or neither: the     *)
(* remaining quota does not go down without a usage counter going up by    *)
(* the same amount, nor up by a refund without a usage counter going       *)
(* down by it.                                                             *)
(***************************************************************************)
C30_CellAndCounterTogether ==
  \A i \in 1..Len(last.calls) :
    LET c == last.calls[i]
        CounterKeys == RedisKeys \ {QuotaKey(k) : k \in Keys}
        \* a cell the script finds absent is set from the durable quota
        before == IF Remaining(c.pre, serviceName) = NoRow THEN dbQuota["k1"]
                  ELSE Remaining(c.pre, serviceName)
        after == IF Remaining(c.post, serviceName) = NoRow THEN before
                 ELSE Remaining(c.post, serviceName)
        moved(d) == \E x \in CounterKeys :
                      CounterValue(c.post, x) = CounterValue(c.pre, x) + d
    IN (c.err = "" /\ c.op \notin OtherOps) =>
         /\ after < before => moved(before - after)
         /\ after > before => moved(before - after)
         /\ after = before => \A x \in CounterKeys : c.post[x] = c.pre[x]

C32_OneSharedCell ==
  /\ \A i \in 1..Len(last.calls) : last.calls[i].err # "WRONGTYPE"
  /\ ( /\ Len(last.calls) = 2
       /\ last.calls[1].op = "set_and_reserve"
       /\ last.calls[1].status = "OK"
       /\ last.calls[2].pre = last.calls[1].post )
     => LET c == last.calls[2]
            found == Remaining(c.pre, serviceName)
        IN /\ (c.op = "reserve" /\ found >= c.amount) =>
                /\ c.status = "OK"
                /\ Remaining(c.post, serviceName) = found - c.amount
           /\ c.op = "refund" =>
                /\ c.status = "OK"
                /\ Remaining(c.post, serviceName) = found + c.amount

(***************************************************************************)
(* C33: once a refresh request has stored its new response under a         *)
(* fingerprint, the entry under that fingerprint is never again the        *)
(* response that was stored before the refresh, whatever hit on the old    *)
(* entry was in progress.                                                  *)
(***************************************************************************)
C33_RefreshedEntryStays ==
  \A p \in Reqs :
    (/\ Done(p) /\ reqs[p].refresh
     /\ "set" \in reqs[p].cacheOps
     /\ reqs[p].fp = requestKey("GET", "/a", ""))
      => ~(store[reqs[p].fp].present /\ store[reqs[p].fp].wrote = "b0")

C36_GetKeyAfterResetIsCurrent ==
  \A r \in Reqs :
    (/\ reqs[r].key = "k1" /\ reqs[r].sawReset
     /\ reqs[r].gotKey /\ ~reqs[r].keyErr) =>
      reqs[r].meta = KeyMetadata(dbKeys[reqs[r].key].KeyString,
                                 dbKeys[reqs[r].key].HasQuota,
                                 dbKeys[reqs[r].key].Status)

C38_PostKeysDistinct ==
  (/\ reqs[1].pc = "keyed" /\ reqs[2].pc = "keyed"
   /\ reqs[1].method = "POST" /\ reqs[2].method = "POST"
   /\ <<URLString(reqs[1].url, sortURLParams(reqs[1].query)), reqs[1].rbody>>
        # <<URLString(reqs[2].url, sortURLParams(reqs[2].query)),
            reqs[2].rbody>>)
    => reqs[1].fp # reqs[2].fp

(***************************************************************************)
(* C39: a response stored from a downstream status s < 400 is served on a  *)
(* later hit with the same status s.                                       *)
(***************************************************************************)
C39_HitKeepsStatus ==
  \A r \in Reqs :
    (Done(r) /\ reqs[r].fromCache) => reqs[r].status = reqs[r].hit.from
====
